---- MODULE Spec2Model ----
(***************************************************************************)
(* Model of the two pipelines of sp500-stooq-downloader:                   *)
(*   - sp500-stooq-downloader.py : get_sp500_tickers, fetch_stooq_csv,     *)
(*     build_dataset, save_parquet, main (the price pipeline);             *)
(*   - get_sp500_weightings.py   : load_spy_weights (the weightings        *)
(*     pipeline).                                                          *)
(* Text is a sequence of one-character strings, so that upper-casing,      *)
(* replacement, lexicographic comparison and date parsing are computed     *)
(* character by character as the library calls do.                         *)
(***************************************************************************)
EXTENDS Integers, Sequences, FiniteSets, TLC

\* ------------------------------------------------------------------ bounds
\* Longest Symbol column of the reference table.
MaxTickers == 2
\* Most banner rows above the header row of the spreadsheet.
MaxBanner == 2
\* Most data rows below the header row of the spreadsheet.
MaxData == 2
\* Largest skip_first / rows_to_read argument tried.
MaxArg == 2

\* ------------------------------------------------------- text primitives
\* Code point of a character (Python compares str by code point).
Ord(c) ==
    CASE c = "-" -> 45 [] c = "." -> 46 [] c = "/" -> 47
      [] c = "0" -> 48 [] c = "1" -> 49 [] c = "2" -> 50 [] c = "3" -> 51
      [] c = "4" -> 52 [] c = "5" -> 53 [] c = "6" -> 54 [] c = "7" -> 55
      [] c = "8" -> 56 [] c = "9" -> 57
      [] c = "A" -> 65 [] c = "B" -> 66 [] c = "Z" -> 90
      [] c = "a" -> 97 [] c = "b" -> 98 [] c = "z" -> 122

\* str.__lt__ : lexicographic order by code point, a proper prefix first.
RECURSIVE StrLess(_, _)
StrLess(s, t) ==
    IF t = <<>> THEN FALSE
    ELSE IF s = <<>> THEN TRUE
    ELSE IF Ord(Head(s)) # Ord(Head(t)) THEN Ord(Head(s)) < Ord(Head(t))
    ELSE StrLess(Tail(s), Tail(t))

\* .str.replace(".", "-", regex=False) on one cell.
ReplaceDot(s) == [k \in 1..Len(s) |-> IF s[k] = "." THEN "-" ELSE s[k]]

UpperChar(c) == CASE c = "a" -> "A" [] c = "b" -> "B" [] c = "z" -> "Z" [] OTHER -> c

\* .str.upper() on one cell.
Upper(s) == [k \in 1..Len(s) |-> UpperChar(s[k])]

IsUpper(s) == \A k \in 1..Len(s) : s[k] \notin {"a", "b", "z"}

HasDot(s) == \E k \in 1..Len(s) : s[k] = "."

\* get_sp500_tickers without the .str.upper() step.
TickersNotUppered(col) == [k \in 1..Len(col) |-> ReplaceDot(col[k])]

\* get_sp500_tickers: the Symbol column, '.' -> '-', upper-cased, as a list.
get_sp500_tickers(col) == [k \in 1..Len(col) |-> Upper(ReplaceDot(col[k]))]

\* ------------------------------------------------------------ cell values
\* Date cells as Stooq sends them (ISO) and in the month-first form that
\* pd.to_datetime also reads.
Iso0102 == <<"2", "0", "2", "4", "-", "0", "1", "-", "0", "2">>
Iso0103 == <<"2", "0", "2", "4", "-", "0", "1", "-", "0", "3">>
Us1231 == <<"1", "2", "/", "3", "1", "/", "2", "0", "2", "3">>
Us0102 == <<"0", "1", "/", "0", "2", "/", "2", "0", "2", "4">>

\* float64 and float32 significand widths; a Close cell c stands for the
\* float64 value 10.0 + c * 2^-49 (c counts float64 ulps above 10.0).
MantissaBits64 == 52
MantissaBits32 == 23
Float32Ulp == 2 ^ (MantissaBits64 - MantissaBits32)

\* .astype("float32") on one cell: round to the nearest float32, ties to the
\* even significand; the result is again counted in float64 ulps.
AsFloat32(c) ==
    LET q == c \div Float32Ulp
        r == c % Float32Ulp
        half == Float32Ulp \div 2
    IN  IF r < half THEN q * Float32Ulp
        ELSE IF r > half THEN (q + 1) * Float32Ulp
        ELSE IF q % 2 = 0 THEN q * Float32Ulp
        ELSE (q + 1) * Float32Ulp

Digit(c) == Ord(c) - 48

IsMonthFirst(s) == s[3] = "/"

\* pd.to_datetime on one cell: the calendar day as the number yyyymmdd, which
\* orders as datetime64 does.
ParseDate(s) ==
    IF IsMonthFirst(s)
    THEN (Digit(s[7]) * 1000 + Digit(s[8]) * 100 + Digit(s[9]) * 10 + Digit(s[10])) * 10000
         + (Digit(s[1]) * 10 + Digit(s[2])) * 100
         + (Digit(s[4]) * 10 + Digit(s[5]))
    ELSE (Digit(s[1]) * 1000 + Digit(s[2]) * 100 + Digit(s[3]) * 10 + Digit(s[4])) * 10000
         + (Digit(s[6]) * 10 + Digit(s[7])) * 100
         + (Digit(s[9]) * 10 + Digit(s[10]))

\* CSV bodies with the columns Date and Close: sequences of <<Date, Close>>.
Bodies ==
    { <<>>,
      << <<Iso0102, 0>> >>,
      << <<Iso0102, 0>>, <<Iso0103, Float32Ulp>> >>,
      << <<Iso0103, Float32Ulp>>, <<Iso0102, 0>> >>,
      << <<Iso0102, 0>>, <<Iso0102, 0>> >>,
      << <<Iso0102, 0>>, <<Iso0102, 1>> >>,
      << <<Us1231, 0>>, <<Us0102, 0>> >>,
      << <<Iso0102, 0>>, <<Us0102, 0>> >> }

\* What requests.get can produce for one URL: a RequestException, or a
\* response with a status code, possibly the rate-limit marker in its text,
\* and a text that is or is not a CSV with the columns Date and Close (an
\* error status may come with a CSV text too).
Responses ==
    { [exc |-> TRUE, status |-> 0, marker |-> FALSE, columns |-> FALSE, rows |-> <<>>],
      [exc |-> FALSE, status |-> 404, marker |-> FALSE, columns |-> FALSE, rows |-> <<>>],
      [exc |-> FALSE, status |-> 200, marker |-> TRUE, columns |-> FALSE, rows |-> <<>>],
      [exc |-> FALSE, status |-> 200, marker |-> FALSE, columns |-> FALSE, rows |-> <<>>],
      [exc |-> FALSE, status |-> 404, marker |-> FALSE, columns |-> TRUE,
       rows |-> << <<Iso0103, 0>> >>] }
    \cup { [exc |-> FALSE, status |-> 200, marker |-> FALSE, columns |-> TRUE, rows |-> b] :
           b \in Bodies }

\* ------------------------------------------------------ fetch_stooq_csv
\* df["Symbol"] = symbol on the frame read_csv returns.
Stamp(rows, symbol) ==
    [k \in 1..Len(rows) |-> [Date |-> rows[k][1], Close |-> rows[k][2], Symbol |-> symbol]]

\* fetch_stooq_csv without the status check: the text is read whatever the
\* status code.
FetchIgnoringStatus(symbol, r) ==
    IF r.exc THEN [tag |-> "None", df |-> <<>>]
    ELSE IF r.marker THEN [tag |-> "None", df |-> <<>>]
    ELSE IF ~r.columns THEN [tag |-> "raise", df |-> <<>>]
    ELSE [tag |-> "df", df |-> Stamp(r.rows, symbol)]

\* fetch_stooq_csv without the except clause: a RequestException propagates.
FetchUncaught(symbol, r) ==
    IF r.exc THEN [tag |-> "raise", df |-> <<>>]
    ELSE IF r.status # 200 \/ r.marker THEN [tag |-> "None", df |-> <<>>]
    ELSE IF ~r.columns THEN [tag |-> "raise", df |-> <<>>]
    ELSE [tag |-> "df", df |-> Stamp(r.rows, symbol)]

\* fetch_stooq_csv: None on a RequestException, a status other than 200 or the
\* rate-limit marker; read_csv(usecols=["Date", "Close"]) raises ValueError,
\* which is no RequestException, when the text lacks the columns.
fetch_stooq_csv(symbol, r) ==
    IF r.exc THEN [tag |-> "None", df |-> <<>>]
    ELSE IF r.status # 200 \/ r.marker THEN [tag |-> "None", df |-> <<>>]
    ELSE IF ~r.columns THEN [tag |-> "raise", df |-> <<>>]
    ELSE [tag |-> "df", df |-> Stamp(r.rows, symbol)]

\* ------------------------------------------------------- frame operations
\* pd.concat(frames, ignore_index=True)
RECURSIVE Concat(_)
Concat(fs) == IF fs = <<>> THEN <<>> ELSE Head(fs) \o Concat(Tail(fs))

Elems(s) == {s[k] : k \in 1..Len(s)}

\* .drop_duplicates(): keep the first occurrence of every row.
RECURSIVE DropDuplicates(_)
DropDuplicates(s) ==
    IF s = <<>> THEN <<>>
    ELSE LET front == SubSeq(s, 1, Len(s) - 1)
             last == s[Len(s)]
         IN  IF last \in Elems(front) THEN DropDuplicates(front)
             ELSE Append(DropDuplicates(front), last)

\* The sort key of sort_values(["Symbol", "Date"]): both columns hold str.
KeyLess(a, b) ==
    \/ StrLess(a.Symbol, b.Symbol)
    \/ a.Symbol = b.Symbol /\ StrLess(a.Date, b.Date)

\* Insert x behind every row whose key is not greater (a stable sort).
RECURSIVE Insert(_, _)
Insert(s, x) ==
    IF s = <<>> THEN <<x>>
    ELSE IF KeyLess(x, Head(s)) THEN <<x>> \o s
    ELSE <<Head(s)>> \o Insert(Tail(s), x)

\* .sort_values(["Symbol", "Date"])
RECURSIVE SortValues(_)
SortValues(s) ==
    IF s = <<>> THEN <<>>
    ELSE Insert(SortValues(SubSeq(s, 1, Len(s) - 1)), s[Len(s)])

\* pd.to_datetime(df["Date"]) reads every cell when all cells have one format;
\* with mixed formats it raises or reads cell by cell, by pandas version.
MixedFormats(df) == \E j, k \in 1..Len(df) : IsMonthFirst(df[j].Date) # IsMonthFirst(df[k].Date)

\* The categories of .astype("category"): the distinct symbols, ascending.
RECURSIVE SortedSeq(_)
SortedSeq(S) ==
    IF S = {} THEN <<>>
    ELSE LET m == CHOOSE x \in S : \A y \in S \ {x} : StrLess(x, y)
         IN  <<m>> \o SortedSeq(S \ {m})

Categories(df) == SortedSeq({df[k].Symbol : k \in 1..Len(df)})

CodeOf(cats, sym) == CHOOSE c \in 0..(Len(cats) - 1) : cats[c + 1] = sym

\* Lines 77-79: Date to datetime64, Symbol to category codes, Close to float32.
Narrow(df) ==
    LET cats == Categories(df)
    IN  [categories |-> cats,
         rows |-> [k \in 1..Len(df) |->
                     [Date |-> ParseDate(df[k].Date),
                      Symbol |-> CodeOf(cats, df[k].Symbol),
                      Close |-> AsFloat32(df[k].Close)]]]

\* Lines 69-74: concat, drop_duplicates, sort_values, reset_index.
Combine(fs) == SortValues(DropDuplicates(Concat(fs)))

NoData == [categories |-> <<>>, rows |-> <<>>]

\* str.lower() on the symbol put into STOOQ_URL_TEMPLATE.
LowerChar(c) == CASE c = "A" -> "a" [] c = "B" -> "b" [] c = "Z" -> "z" [] OTHER -> c

Lower(s) == [k \in 1..Len(s) |-> LowerChar(s[k])]

\* save_parquet that appends to the file it finds.
SaveMerging(df, d) ==
    [dir |-> TRUE, exists |-> TRUE,
     data |-> IF d.exists THEN [df EXCEPT !.rows = d.data.rows \o df.rows] ELSE df]

\* save_parquet: os.makedirs(exist_ok=True), then to_parquet replaces the file.
save_parquet(df, disk) == [dir |-> TRUE, exists |-> TRUE, data |-> df]

\* ------------------------------------------------------------------ inputs
RECURSIVE SeqsUpTo(_, _)
SeqsUpTo(S, n) ==
    IF n = 0 THEN {<<>>}
    ELSE LET shorter == SeqsUpTo(S, n - 1)
         IN  shorter \cup {Append(q, x) : q \in {t \in shorter : Len(t) = n - 1}, x \in S}

\* Cells of the Symbol column of the reference table.
SymbolCells == { <<"a">>, <<"A">>, <<"b", ".", "a">>, <<"B", "-", "A">>, <<"B">> }

\* The Symbol columns the price pipeline is run on.
PriceColumns == SeqsUpTo({ <<"a">>, <<"b", ".", "a">> }, MaxTickers)

\* What data/raw holds before the run: nothing, the directory, or a file
\* written by an earlier run.
OldData == Narrow(Stamp(<< <<Iso0102, 0>> >>, <<"Z">>))

PriorDisks ==
    { [dir |-> FALSE, exists |-> FALSE, data |-> NoData],
      [dir |-> TRUE, exists |-> FALSE, data |-> NoData],
      [dir |-> TRUE, exists |-> TRUE, data |-> OldData] }

\* ------------------------------------------------------------------- state
VARIABLES
    column,     \* tables[0]["Symbol"] of the reference page
    tickers,    \* the list get_sp500_tickers returned
    pc,         \* where main / build_dataset stands
    i,          \* position of the for loop in tickers
    requests,   \* the symbols requests.get was called for, in order
    responses,  \* what each of those calls produced
    frames,     \* the accumulator of build_dataset
    nsleeps,    \* calls of time.sleep(SLEEP_BETWEEN_CALLS) so far
    out,        \* the dataset build_dataset returned
    disk,       \* OUT_PATH and its directory
    prior,      \* the disk as the run found it
    sheet,      \* the rows of the first sheet of the spreadsheet
    skip_first, rows_to_read, normalise,   \* arguments of load_spy_weights
    httpOk,     \* whether download_excel gets a success status
    wpc,        \* where load_spy_weights stands
    wdf         \* the frame load_spy_weights returned

priceVars == <<column, tickers, pc, i, requests, responses, frames, nsleeps, out, disk, prior>>
weightVars == <<sheet, skip_first, rows_to_read, normalise, httpOk, wpc, wdf>>
vars == <<priceVars, weightVars>>

NoFrame == [columns |-> <<>>, index |-> <<>>, rows |-> <<>>]

PriceIdle ==
    /\ tickers = <<>> /\ i = 0 /\ requests = <<>> /\ responses = <<>>
    /\ frames = <<>> /\ nsleeps = 0 /\ out = NoData

WeightsIdle ==
    /\ sheet = <<>> /\ skip_first = 0 /\ rows_to_read = 0 /\ normalise = FALSE
    /\ httpOk = FALSE /\ wpc = "idle" /\ wdf = NoFrame

\* ---------------------------------------------------- the price pipeline
\* Line 60: the iterable of the for loop is get_sp500_tickers().
ResolveTickers ==
    /\ pc = "start"
    /\ tickers' = get_sp500_tickers(column)
    /\ i' = 1
    /\ pc' = "fetch"
    /\ UNCHANGED <<column, requests, responses, frames, nsleeps, out, disk, prior>>
    /\ UNCHANGED weightVars

\* The loop body with `continue` on a None result: no sleep for that ticker.
FetchNoSleepOnNone ==
    /\ pc = "fetch"
    /\ i <= Len(tickers)
    /\ \E r \in Responses :
         LET res == fetch_stooq_csv(tickers[i], r)
         IN  /\ requests' = Append(requests, Lower(tickers[i]))
             /\ responses' = Append(responses, r)
             /\ frames' = IF res.tag = "df" /\ res.df # <<>>
                          THEN Append(frames, res.df) ELSE frames
             /\ pc' = IF res.tag = "raise" THEN "raised_parse"
                      ELSE IF res.tag = "None" THEN "fetch" ELSE "sleep"
             /\ i' = IF res.tag = "None" THEN i + 1 ELSE i
    /\ UNCHANGED <<column, tickers, nsleeps, out, disk, prior>>
    /\ UNCHANGED weightVars

\* Lines 60-63: take the next ticker, fetch it, append a non-empty frame.
Fetch ==
    /\ pc = "fetch"
    /\ i <= Len(tickers)
    /\ \E r \in Responses :
         LET res == fetch_stooq_csv(tickers[i], r)
         IN  /\ requests' = Append(requests, Lower(tickers[i]))
             /\ responses' = Append(responses, r)
             /\ frames' = IF res.tag = "df" /\ res.df # <<>>
                          THEN Append(frames, res.df) ELSE frames
             /\ pc' = IF res.tag = "raise" THEN "raised_parse" ELSE "sleep"
    /\ UNCHANGED <<column, tickers, i, nsleeps, out, disk, prior>>
    /\ UNCHANGED weightVars

\* Line 64: time.sleep(SLEEP_BETWEEN_CALLS), then the loop advances.
Sleep ==
    /\ pc = "sleep"
    /\ nsleeps' = nsleeps + 1
    /\ i' = i + 1
    /\ pc' = "fetch"
    /\ UNCHANGED <<column, tickers, requests, responses, frames, out, disk, prior>>
    /\ UNCHANGED weightVars

\* The tail of build_dataset without the `if not frames` check.
FinishUnchecked ==
    /\ pc = "fetch"
    /\ i > Len(tickers)
    /\ pc' = "returned"
    /\ out' = Narrow(Combine(frames))
    /\ UNCHANGED <<column, tickers, i, requests, responses, frames, nsleeps, disk, prior>>
    /\ UNCHANGED weightVars

\* Lines 66-81: the loop is exhausted; raise on an empty accumulator, else
\* combine the frames and narrow the dtypes. On Date cells of mixed formats
\* pd.to_datetime raises (pandas 2) or reads each cell (pandas 1): either
\* outcome is possible, the requirements pin no version.
Finish ==
    /\ pc = "fetch"
    /\ i > Len(tickers)
    /\ IF frames = <<>>
       THEN pc' = "raised_empty" /\ out' = out
       ELSE LET df == Combine(frames)
            IN  \/ /\ MixedFormats(df)
                   /\ pc' = "raised_convert"
                   /\ out' = out
                \/ /\ pc' = "returned"
                   /\ out' = Narrow(df)
    /\ UNCHANGED <<column, tickers, i, requests, responses, frames, nsleeps, disk, prior>>
    /\ UNCHANGED weightVars

\* Lines 92-95: main hands the dataset to save_parquet.
Save ==
    /\ pc = "returned"
    /\ disk' = save_parquet(out, disk)
    /\ pc' = "done"
    /\ UNCHANGED <<column, tickers, i, requests, responses, frames, nsleeps, out, prior>>
    /\ UNCHANGED weightVars

Init ==
    /\ column \in PriceColumns
    /\ pc = "start"
    /\ disk \in PriorDisks
    /\ prior = disk
    /\ PriceIdle
    /\ WeightsIdle

Next == ResolveTickers \/ Fetch \/ Sleep \/ Finish \/ Save

Spec == Init /\ [][Next]_vars

\* -------------------------------------------------- get_sp500_tickers alone
MaxColumn == 3

InitTickers ==
    /\ column \in SeqsUpTo(SymbolCells, MaxColumn)
    /\ pc = "start"
    /\ disk = [dir |-> FALSE, exists |-> FALSE, data |-> NoData]
    /\ prior = disk
    /\ PriceIdle
    /\ WeightsIdle

NextTickers == ResolveTickers

SpecTickers == InitTickers /\ [][NextTickers]_vars

\* ------------------------------------------------ the weightings pipeline
\* A spreadsheet cell holds text or a number.
T(s) == [text |-> s, num |-> 0]
N(n) == [text |-> "", num |-> n]

BannerRow == <<T("Fund Name:"), T("SPDR"), T("")>>

\* Header rows with the expected columns, in either order.
HeaderRows == { <<T("Name"), T("Ticker"), T("Weight")>>, <<T("Weight"), T("Name"), T("Ticker")>> }

\* The data row (name, ticker, weight) laid out under header h.
Layout(h, name, ticker, weight) ==
    [k \in 1..Len(h) |->
        CASE h[k] = T("Name") -> T(name)
          [] h[k] = T("Ticker") -> T(ticker)
          [] h[k] = T("Weight") -> N(weight)]

DataRows(h) == { Layout(h, "NVIDIA", "NVDA", 712), Layout(h, "APPLE", "AAPL", 650) }

Banner(n) == [k \in 1..n |-> BannerRow]

Sheets ==
    UNION { { Banner(b) \o <<h>> \o d : b \in 0..MaxBanner, d \in SeqsUpTo(DataRows(h), MaxData) } :
            h \in HeaderRows }

\* read_excel without nrows: every row behind the header is read.
ReadExcelAllRows(rows, skip, nrows) ==
    IF skip >= Len(rows) THEN NoFrame
    ELSE LET data == SubSeq(rows, skip + 2, Len(rows))
         IN  [columns |-> rows[skip + 1],
              index |-> [k \in 1..Len(data) |-> k - 1],
              rows |-> data]

\* pd.read_excel(sheet_name=0, skiprows=skip, nrows=nrows): the row behind the
\* skipped ones names the columns, at most nrows rows behind it are the data,
\* and the index is the RangeIndex 0..n-1.
read_excel(rows, skip, nrows) ==
    IF skip >= Len(rows) THEN NoFrame
    ELSE LET last == IF skip + 1 + nrows < Len(rows) THEN skip + 1 + nrows ELSE Len(rows)
             data == SubSeq(rows, skip + 2, last)
         IN  [columns |-> rows[skip + 1],
              index |-> [k \in 1..Len(data) |-> k - 1],
              rows |-> data]

HasColumn(f, name) == \E k \in 1..Len(f.columns) : f.columns[k] = T(name)

ColumnOf(f, name) == CHOOSE k \in 1..Len(f.columns) : f.columns[k] = T(name)

\* df[["Ticker", "Weight"]]: the two columns under their own labels, in the
\* order asked for, with the index kept.
SelectTickerWeight(f) ==
    [columns |-> <<"Ticker", "Weight">>,
     index |-> f.index,
     rows |-> [k \in 1..Len(f.rows) |->
                 [Ticker |-> f.rows[k][ColumnOf(f, "Ticker")].text,
                  Weight |-> [num |-> f.rows[k][ColumnOf(f, "Weight")].num, den |-> 1]]]]

\* df["Weight"] / 100.0, the quotient kept exact as num / den.
Normalise(f) ==
    [f EXCEPT !.rows = [k \in 1..Len(f.rows) |->
        [f.rows[k] EXCEPT !.Weight = [num |-> f.rows[k].Weight.num,
                                      den |-> f.rows[k].Weight.den * 100]]]]

\* .reset_index(drop=True)
ResetIndex(f) == [f EXCEPT !.index = [k \in 1..Len(f.rows) |-> k - 1]]

\* load_spy_weights, lines 32-46
load_spy_weights(rows, norm, skip, nrows) ==
    LET f == read_excel(rows, skip, nrows)
    IN  IF ~(HasColumn(f, "Ticker") /\ HasColumn(f, "Weight"))
        THEN [tag |-> "KeyError", df |-> NoFrame]
        ELSE LET g == SelectTickerWeight(f)
                 h == IF norm THEN Normalise(g) ELSE g
             IN  [tag |-> "df", df |-> ResetIndex(h)]

\* download_excel raises on a failure status; else the frame is built.
LoadWeights ==
    /\ wpc = "start"
    /\ IF ~httpOk
       THEN wpc' = "raised_http" /\ wdf' = wdf
       ELSE LET res == load_spy_weights(sheet, normalise, skip_first, rows_to_read)
            IN  /\ wpc' = IF res.tag = "df" THEN "returned" ELSE "raised_key"
                /\ wdf' = res.df
    /\ UNCHANGED <<sheet, skip_first, rows_to_read, normalise, httpOk>>
    /\ UNCHANGED priceVars

InitWeights ==
    /\ sheet \in Sheets
    /\ skip_first \in 0..MaxArg
    /\ rows_to_read \in 0..MaxArg
    /\ normalise \in BOOLEAN
    /\ httpOk \in BOOLEAN
    /\ wpc = "start"
    /\ wdf = NoFrame
    /\ column = <<>>
    /\ pc = "idle"
    /\ disk = [dir |-> FALSE, exists |-> FALSE, data |-> NoData]
    /\ prior = disk
    /\ PriceIdle

NextWeights == LoadWeights

SpecWeights == InitWeights /\ [][NextWeights]_vars

\* ================================================================ claims
\* The (Symbol, Date, Close) of row k of a narrowed dataset, the symbol
\* decoded from its category code.
Triple(d, k) == <<d.categories[d.rows[k].Symbol + 1], d.rows[k].Date, d.rows[k].Close>>

Returned == pc \in {"returned", "done"}

\* A response that is a CSV with the columns Date and Close.
IsTable(r) == ~r.exc /\ r.status = 200 /\ ~r.marker /\ r.columns

\* A response whose text is read by read_csv and lacks the columns.
IsUnreadable(r) == ~r.exc /\ r.status = 200 /\ ~r.marker /\ ~r.columns

\* A response for which the fetch failed: exception, status, rate limit.
IsFetchFailure(r) == r.exc \/ r.status # 200 \/ r.marker

\* The rows the tables received so far carry, each with the ticker it was
\* requested for.
ReceivedRows ==
    UNION { { [Date |-> responses[k].rows[j][1], Close |-> responses[k].rows[j][2],
               Symbol |-> tickers[k]] : j \in 1..Len(responses[k].rows) } :
            k \in {n \in 1..Len(responses) : IsTable(responses[n])} }

\* C1: the returned dataset, after the dtype narrowing, holds no two rows
\* with the same (Symbol, Date, Close).
C1_NoDuplicateTriples ==
    Returned => \A j, k \in 1..Len(out.rows) : j < k => Triple(out, j) # Triple(out, k)

\* C2: the returned dataset is ascending by Symbol and, within a Symbol, by
\* the converted Date.
C2_SortedBySymbolThenDate ==
    Returned =>
        \A k \in 1..(Len(out.rows) - 1) :
            \/ StrLess(Triple(out, k)[1], Triple(out, k + 1)[1])
            \/ /\ Triple(out, k)[1] = Triple(out, k + 1)[1]
               /\ Triple(out, k)[2] <= Triple(out, k + 1)[2]

\* C3: when every fetch so far failed or gave no rows, the run can only end
\* in the empty-result error, raised after every ticker was requested and
\* slept for, with the directory and the file as the run found them.
AllFailedOrEmpty ==
    \A k \in 1..Len(responses) :
        IsFetchFailure(responses[k]) \/ (IsTable(responses[k]) /\ responses[k].rows = <<>>)

C3_EmptyResultRaises ==
    /\ (AllFailedOrEmpty /\ pc \notin {"start", "fetch", "sleep"}) =>
          /\ pc = "raised_empty"
          /\ Len(requests) = Len(tickers)
          /\ nsleeps = Len(tickers)
    /\ pc = "raised_empty" => (AllFailedOrEmpty /\ disk = prior)

C3_Witness ==
    /\ pc = "raised_empty"
    /\ Len(tickers) = 2
    /\ IsFetchFailure(responses[1])
    /\ IsTable(responses[2])
    /\ prior.exists

\* C4: the returned dataset holds exactly the rows of the tables received,
\* each once and under the ticker it was requested for; a ticker whose fetch
\* failed or gave no rows adds none.
C4_FailedTickerContributesNothing ==
    Returned =>
        /\ Len(out.rows) = Cardinality(ReceivedRows)
        /\ {Triple(out, k) : k \in 1..Len(out.rows)}
             = {<<r.Symbol, ParseDate(r.Date), AsFloat32(r.Close)>> : r \in ReceivedRows}

C4_Witness ==
    /\ pc = "returned"
    /\ Len(tickers) = 2
    /\ IsTable(responses[1])
    /\ responses[1].rows = << <<Iso0102, 0>>, <<Iso0103, Float32Ulp>> >>
    /\ IsFetchFailure(responses[2])
    /\ Len(out.rows) = 2
    /\ \A k \in 1..2 : Triple(out, k)[1] = tickers[1]

\* C5 as stated: the only error build_dataset raises is the empty-result
\* error, after all tickers.
C5_OnlyEmptyResultError ==
    pc \in {"raised_parse", "raised_convert", "raised_empty"} =>
        (pc = "raised_empty" /\ Len(requests) = Len(tickers))

\* C5 as amended: a fetch failure or an empty table never ends the loop; the
\* loop ends early only on a 200 response whose text lacks the columns, and
\* the other errors (empty accumulator, date conversion on mixed formats)
\* are raised after every ticker was requested.
C5_FetchFailuresSwallowed ==
    /\ \A k \in 1..Len(responses) :
          IsUnreadable(responses[k]) <=> (k = Len(responses) /\ pc = "raised_parse")
    /\ pc \in {"raised_empty", "raised_convert", "returned", "done"} =>
          Len(requests) = Len(tickers)
    /\ pc = "raised_empty" => frames = <<>>
    /\ pc = "raised_convert" =>
          \E a, b \in ReceivedRows : IsMonthFirst(a.Date) # IsMonthFirst(b.Date)

C5_Witness ==
    /\ pc = "returned"
    /\ Len(tickers) = 2
    /\ responses[1].exc
    /\ Len(out.rows) > 0

SameFolded(c, d) == c = d \/ (c = "." /\ d = "-") \/ (c # d /\ LowerChar(d) = c)

C7_ColumnsTickerWeight == wpc = "returned" => wdf.columns = <<"ticker", "weight">>

\* The cell of row n of the sheet under the header cell named name.
SheetCell(n, name) ==
    sheet[n][CHOOSE c \in 1..Len(sheet[skip_first + 1]) : sheet[skip_first + 1][c] = T(name)]

\* C8: the frame has at most rows_to_read rows, they are the first rows
\* behind the skipped rows and the header, in sheet order, and the index is
\* 0, 1, ..., n-1.
C8_FirstRowsZeroBasedIndex ==
    wpc = "returned" =>
        LET n == Len(wdf.rows)
            avail == Len(sheet) - skip_first - 1
        IN  /\ n <= rows_to_read
            /\ n = IF avail < rows_to_read THEN avail ELSE rows_to_read
            /\ Len(wdf.index) = n
            /\ \A k \in 1..n :
                  /\ wdf.index[k] = k - 1
                  /\ wdf.rows[k].Ticker = SheetCell(skip_first + 1 + k, "Ticker").text
                  /\ wdf.rows[k].Weight.num = SheetCell(skip_first + 1 + k, "Weight").num

C8_Witness ==
    /\ wpc = "returned"
    /\ skip_first = 2
    /\ rows_to_read = 1
    /\ Len(sheet) = 5
    /\ Len(wdf.rows) = 1
    /\ sheet[4] # sheet[5]

\* The frames the accumulator must hold, from the responses alone.
RECURSIVE TablesOf(_, _)
TablesOf(syms, resps) ==
    IF resps = <<>> THEN <<>>
    ELSE LET rest == TablesOf(Tail(syms), Tail(resps))
         IN  IF IsTable(Head(resps)) /\ Head(resps).rows # <<>>
             THEN <<Stamp(Head(resps).rows, Head(syms))>> \o rest
             ELSE rest

\* C9: the file a finished run leaves is determined by the ticker list and
\* the responses alone: whatever the disk held before, the file holds the
\* dataset built from them and nothing else.
C9_OutputIndependentOfPriorFile ==
    pc = "done" =>
        disk = [dir |-> TRUE, exists |-> TRUE,
                data |-> Narrow(Combine(TablesOf(tickers, responses)))]

C9_Witness ==
    /\ pc = "done"
    /\ prior.exists
    /\ prior.data # disk.data
    /\ Len(tickers) = 2

====
